---- MODULE Spec2Model ----
(***************************************************************************)
(* Model of the medical-telegram-warehouse ingestion engine:               *)
(*   - the data lake of JSON files (data/raw/telegram_messages),           *)
(*   - the raw store raw.telegram_messages in PostgreSQL,                  *)
(*   - the standalone loader scripts/load_raw_to_postgres.py,              *)
(*   - the Dagster jobs of dagster/jobs.py and their units (assets.py),    *)
(*   - the Telegram scraper src/scraper.py,                                *)
(*   - the sensors of dagster/sensor.py and the schedules of               *)
(*     dagster/schedules.py.                                               *)
(***************************************************************************)
EXTENDS Integers, Sequences, FiniteSets, TLC

(***************************************************************************)
(* Bounds of the model.                                                    *)
(***************************************************************************)
MaxRecs == 2          \* messages per JSON file present in the initial lake
MaxRuns == 2          \* executions of the loader script plus runs of a job
MaxSample == 1        \* how many of the range(10) sample messages are kept
MaxMsgs == 2          \* messages a channel of the source holds
MaxChannels == 2      \* how many of the configured channels are scraped
MaxScrapes == 2       \* executions of the scraper script
MaxDays == 1          \* days that pass between executions
MaxConfig == 3        \* channels the sensor's configuration may list
MaxIds == 3           \* messages of a channel that two scrapes have saved
MaxEmTicks == 3       \* times the clock of the emergency sensor moves on
MaxEmergency == 2     \* messages with an emergency keyword that get loaded
MaxScheduleTicks == 2 \* half hours the scheduler is followed over

(***************************************************************************)
(* Program constants.                                                      *)
(***************************************************************************)
FileLimit == 5        \* json_files[:5] in the load unit
DaysBack == 7         \* days_back=7 in main() of the scraper
LimitPerChannel == 500 \* limit_per_channel=500 in main() of the scraper
ChannelPause == 10    \* asyncio.sleep(10) between channels
MinimumInterval == 300 \* minimum_interval_seconds=300 of emergency_data_sensor
RecentWindow == 3600  \* INTERVAL '1 hour' in the query of emergency_data_sensor

VARIABLES
    \* data lake and raw store
    jsonDir,          \* data/raw/telegram_messages exists
    lake,             \* file name -> file content, for the files that exist
    table,            \* column type of raw.telegram_messages.message_id
    store,            \* rows of raw.telegram_messages
    \* standalone loader (scripts/load_raw_to_postgres.py)
    ldPc,             \* position in main()
    ldConn,           \* loader.connection: "None", "open", "closed"
    ldPending,        \* files the rglob iteration has still to yield
    files_loaded,
    records_loaded,
    ldResult,         \* value returned by load_json_files
    ldSummary,        \* final log line of main()
    ldRuns,           \* executions of the script so far
    ldInserted,       \* history: rows this execution really added
    ldTotal,          \* history: files the rglob of this execution found
    ldErrors,         \* history: files of this execution whose load raised
    loadedOnce,       \* history: batches some load has fully committed
    \* Dagster job run (dagster/jobs.py, dagster/assets.py)
    job,              \* the job being run
    unit,             \* unit name -> state of the unit in this run
    connection,       \* context.resources.postgres.connection
    jobRuns,          \* runs so far
    asPc,             \* position inside load_raw_to_postgres
    asPending,        \* json_files[:5] still to be opened
    asMsgs,           \* messages of the open file
    asIdx,            \* messages of the open file already inserted
    total_records,
    files_processed,
    loadOutput,       \* Output value of load_raw_to_postgres
    asInserted,       \* history: rows this run of the unit really added
    asErrors,         \* history: files of this run whose load raised
    results,          \* results of run_dbt_transformations, in command order
    \* the scraper (src/scraper.py) and its source
    clock,            \* the time, in seconds
    source,           \* what iter_messages yields for a channel, in order
    scPc,             \* position in main() / scrape_all_channels
    scRuns,           \* executions of the scraper so far
    scSummary,        \* what main() logged: "none", "finished", "failed"
    client,           \* the Telegram client: "new", "connected", "closed"
    today,            \* the day scrape_all_channels names its files after
    chIdx,            \* index of the channel of the for loop
    srcPos,           \* messages the iteration has yielded
    messages_data,
    message_count,
    image_count,
    channels_scraped,
    messages_scraped,
    images_downloaded,
    failed_channels,
    images,           \* image files on disk, as <<channel, message id>>
    blockedUntil,     \* end of the wait the source last demanded
    earlyRequest,     \* history: a request was issued before blockedUntil
    flooded,          \* history: channels of this run ended by FloodWaitError
    faulted,          \* history: channels of this run ended by another error
    transient,        \* history: the transient errors that ended a fetch of a channel
    crashFetched,     \* history: messages fetched and not saved at a crash
    \* new_channel_sensor (dagster/sensor.py)
    config,           \* config/channels.json: whether it exists, active_channels
    cursor,           \* context.cursor: a string of digits, or None
    runs,             \* the run the sensor requested for a channel count
    lastEval,         \* history: what the latest evaluation read
    maxObserved,      \* history: the largest channel count an evaluation read
    emergency,        \* emergency_data_sensor: its clock, the rows that match, its requests
    scheduler         \* the schedules: the minute of the week, the schedules due at it

storeVars == <<jsonDir, lake, table, store, loadedOnce>>
loaderVars == <<ldPc, ldConn, ldPending, files_loaded, records_loaded,
                ldResult, ldSummary, ldRuns, ldInserted, ldTotal, ldErrors>>
assetVars == <<asPc, asPending, asMsgs, asIdx, total_records, files_processed, loadOutput,
               asInserted, asErrors>>
jobVars == <<job, unit, connection, jobRuns, assetVars, results>>
sourceVars == <<clock, source, blockedUntil, earlyRequest>>
statsVars == <<channels_scraped, messages_scraped, images_downloaded, failed_channels>>
scraperVars == <<scPc, scRuns, scSummary, client, today, chIdx, srcPos, messages_data, message_count,
                 image_count, statsVars, images, flooded, faulted, transient,
                 crashFetched>>
sensorVars == <<config, cursor, runs, lastEval, maxObserved, emergency, scheduler>>
vars == <<storeVars, loaderVars, jobVars, sourceVars, scraperVars, sensorVars>>

(***************************************************************************)
(* Values.  A message_id is an integer: a positive n is the Telegram id n, *)
(* 0 is a missing id (msg.get('message_id') is None), a negative n is the  *)
(* non-numeric string 'sample_<-n-1>' of the pipeline's sample messages.   *)
(***************************************************************************)
NullId == 0
SampleId(i) == 0 - (i + 1)
NoResult == 0 - 1     \* load_json_files returned None

Channels == {"lobelia4cosmetics"}
Dates == 1..MaxRuns
\* The files the initial lake may hold: one scrape, of day 1.
FileNames == {<<1, c>> : c \in Channels}
SampleFile(d) == <<d, "sample_channel">>

\* One message of a JSON file.  payload stands for the columns message_text,
\* views, forwards and scraped_at taken together.
Msg(id, ch, p) ==
    [message_id |-> id, channel_name |-> ch, payload |-> p, image_path |-> ""]

\* Message 1 as captured at two instants, and a message without an id.
MsgPool ==
    {Msg(1, "lobelia4cosmetics", 1), Msg(1, "lobelia4cosmetics", 2),
     Msg(NullId, "lobelia4cosmetics", 1)}

SeqsUpTo(S, n) == UNION {[1..k -> S] : k \in 0..n}

\* A file is either valid JSON holding a list of messages or not JSON at all.
JsonFile(msgs) == [valid |-> TRUE, messages |-> msgs]
InvalidFile == [valid |-> FALSE, messages |-> <<>>]
FileContents == {JsonFile(s) : s \in SeqsUpTo(MsgPool, MaxRecs)} \cup {InvalidFile}

Lakes == UNION {[D -> FileContents] : D \in SUBSET FileNames}
EmptyLake == [f \in {} |-> InvalidFile]

(***************************************************************************)
(* The raw store.                                                          *)
(***************************************************************************)
\* CREATE TABLE IF NOT EXISTS of the standalone loader: message_id BIGINT.
LoaderCreateTable(t) == IF t = "none" THEN "bigint" ELSE t

\* An INSERT raises: NOT NULL violation, or a non-numeric id for BIGINT.
InsertFails(t, msg) ==
    \/ msg.message_id = NullId
    \/ t = "bigint" /\ msg.message_id < 0

\* id SERIAL: a fresh id above every id of the table (the gaps that conflicts
\* and rollbacks leave in the sequence are not modelled).
NextSerial(st) ==
    IF st = {} THEN 1
    ELSE 1 + CHOOSE n \in {r.id : r \in st} : \A r \in st : r.id <= n

\* A table without the UNIQUE constraint: no INSERT ever conflicts.
NoConflicts(st, msg) == FALSE

\* A constraint over every column: only an identical row conflicts.
ConflictsOnRow(st, msg) ==
    \E r \in st : /\ r.message_id = msg.message_id
                  /\ r.channel_name = msg.channel_name
                  /\ r.payload = msg.payload

\* UNIQUE(message_id, channel_name): the conflict target of both INSERTs.
Conflicts(st, msg) ==
    \E r \in st : r.message_id = msg.message_id /\ r.channel_name = msg.channel_name

\* ON CONFLICT ... DO UPDATE: the stored row takes the delivered payload.
LoaderUpsert(st, msg) ==
    IF Conflicts(st, msg)
    THEN {IF r.message_id = msg.message_id /\ r.channel_name = msg.channel_name
          THEN [r EXCEPT !.payload = msg.payload] ELSE r : r \in st}
    ELSE st \cup {[id |-> NextSerial(st), message_id |-> msg.message_id,
                   channel_name |-> msg.channel_name, payload |-> msg.payload,
                   image_path |-> msg.image_path]}

\* INSERT ... ON CONFLICT (message_id, channel_name) DO NOTHING, with the
\* nine columns of the standalone loader.
LoaderInsert(st, msg) ==
    IF Conflicts(st, msg) THEN st
    ELSE st \cup {[id |-> NextSerial(st), message_id |-> msg.message_id,
                   channel_name |-> msg.channel_name, payload |-> msg.payload,
                   image_path |-> msg.image_path]}

RECURSIVE LoaderInsertAll(_, _)
\* execute_batch: the statements of one file, in order, in one transaction.
LoaderInsertAll(st, msgs) ==
    IF msgs = <<>> THEN st
    ELSE LoaderInsertAll(LoaderInsert(st, Head(msgs)), Tail(msgs))

(***************************************************************************)
(* The standalone loader: main() of scripts/load_raw_to_postgres.py.       *)
(***************************************************************************)
\* main() up to the loop of load_json_files: connect(), create_raw_schema(),
\* and the start of load_json_files.
LoaderStart(ok) ==
    /\ ldPc \in {"idle", "done"}
    /\ ldRuns + jobRuns < MaxRuns
    /\ ldRuns' = ldRuns + 1
    /\ files_loaded' = 0
    /\ records_loaded' = 0
    /\ ldInserted' = 0
    /\ ldErrors' = 0
    /\ ldResult' = NoResult
    /\ IF ~ok
       THEN \* connect raises: main logs the failure and disconnects
            /\ ldConn' = "None"
            /\ ldPc' = "done"
            /\ ldSummary' = "failed"
            /\ ldPending' = {}
            /\ ldTotal' = 0
            /\ table' = table
       ELSE /\ ldConn' = "open"
            /\ table' = LoaderCreateTable(table)
            /\ ldSummary' = "none"
            /\ IF jsonDir
               THEN /\ ldPending' = DOMAIN lake
                    /\ ldTotal' = Cardinality(DOMAIN lake)
                    /\ ldPc' = "files"
               ELSE \* JSON directory not found: return (None)
                    /\ ldPending' = {}
                    /\ ldTotal' = 0
                    /\ ldPc' = "validate"
    /\ UNCHANGED <<jsonDir, lake, store, loadedOnce, jobVars, sourceVars, scraperVars, sensorVars>>

\* One iteration of the loop: one file, one transaction.
LoadJsonFile(f) ==
    /\ ldPc = "files"
    /\ f \in ldPending
    /\ ldPending' = ldPending \ {f}
    /\ LET file == lake[f]
           records == file.messages
       IN  IF \/ ~file.valid                  \* json.JSONDecodeError
              \/ \E i \in 1..Len(records) : InsertFails(table, records[i])
                                              \* an INSERT raises: rollback
           THEN /\ ldErrors' = ldErrors + 1
                /\ UNCHANGED <<store, files_loaded, records_loaded, ldInserted,
                               loadedOnce>>
           ELSE IF records = <<>>             \* "No messages in ...": continue
           THEN UNCHANGED <<store, files_loaded, records_loaded, ldInserted,
                            ldErrors, loadedOnce>>
           ELSE /\ store' = LoaderInsertAll(store, records)
                /\ files_loaded' = files_loaded + 1
                /\ records_loaded' = records_loaded + Len(records)
                /\ ldInserted' = ldInserted + Cardinality(store') - Cardinality(store)
                /\ loadedOnce' = loadedOnce \cup {records}
                /\ ldErrors' = ldErrors
    /\ UNCHANGED <<jsonDir, lake, table, ldPc, ldConn, ldResult, ldSummary, ldRuns,
                   ldTotal, jobVars, sourceVars, scraperVars, sensorVars>>

\* The loop has ended: load_json_files returns records_loaded.
LoadJsonFilesEnd ==
    /\ ldPc = "files"
    /\ ldPending = {}
    /\ ldResult' = records_loaded
    /\ ldPc' = "validate"
    /\ UNCHANGED <<storeVars, ldConn, ldPending, files_loaded, records_loaded,
                   ldSummary, ldRuns, ldInserted, ldTotal, ldErrors, jobVars, sourceVars, scraperVars, sensorVars>>

\* A main() without its finally: the connection is left as it is.
LoaderFinishNoDisconnect ==
    /\ ldPc = "validate"
    /\ ldSummary' = "success"
    /\ ldPc' = "done"
    /\ UNCHANGED <<storeVars, ldConn, ldPending, files_loaded, records_loaded, ldResult,
                   ldRuns, ldInserted, ldTotal, ldErrors, jobVars, sourceVars, scraperVars, sensorVars>>

\* validate_data(), the success line of main(), and disconnect() in finally.
LoaderFinish ==
    /\ ldPc = "validate"
    /\ ldSummary' = "success"
    /\ ldConn' = "closed"
    /\ ldPc' = "done"
    /\ UNCHANGED <<storeVars, ldPending, files_loaded, records_loaded, ldResult,
                   ldRuns, ldInserted, ldTotal, ldErrors, jobVars, sourceVars, scraperVars, sensorVars>>

LoaderNext ==
    \/ \E ok \in BOOLEAN : LoaderStart(ok)
    \/ \E f \in DOMAIN lake : LoadJsonFile(f)
    \/ LoadJsonFilesEnd
    \/ LoaderFinish

(***************************************************************************)
(* The Dagster jobs of dagster/jobs.py.                                    *)
(***************************************************************************)
Units ==
    {"scrape_telegram_data", "load_raw_to_postgres", "run_dbt_transformations",
     "run_yolo_enrichment", "load_yolo_to_warehouse", "generate_analytics_report",
     "test_fastapi_endpoints"}

\* The inputs each unit of telegram_pipeline is wired to.
PipelineUpstream(u) ==
    CASE u = "scrape_telegram_data" -> {}
      [] u = "load_raw_to_postgres" -> {"scrape_telegram_data"}
      [] u = "run_dbt_transformations" -> {"load_raw_to_postgres"}
      [] u = "run_yolo_enrichment" -> {}
      [] u = "load_yolo_to_warehouse" ->
             {"run_yolo_enrichment", "run_dbt_transformations"}
      [] u = "generate_analytics_report" ->
             {"run_dbt_transformations", "load_yolo_to_warehouse"}
      [] u = "test_fastapi_endpoints" -> {"generate_analytics_report"}

JobUnits(j) ==
    IF j = "manual_scraping_job"
    THEN {"scrape_telegram_data", "load_raw_to_postgres"}
    ELSE Units

Upstream(j, u) ==
    IF j = "manual_scraping_job"
    THEN IF u = "load_raw_to_postgres" THEN {"scrape_telegram_data"} ELSE {}
    ELSE PipelineUpstream(u)

Terminal == {"succeeded", "failed", "skipped"}

\* A unit that starts as soon as one of its inputs exists.
CanStartOnAnyInput(u) ==
    /\ unit[u] = "pending"
    /\ \A v \in Units : unit[v] # "running"
    /\ Upstream(job, u) # {} => \E v \in Upstream(job, u) : unit[v] = "succeeded"

\* in_process_executor: one unit at a time, a unit only after its inputs exist.
CanStart(u) ==
    /\ unit[u] = "pending"
    /\ \A v \in Units : unit[v] # "running"
    /\ \A v \in Upstream(job, u) : unit[v] = "succeeded"

\* An executor that leaves the units below a failed unit waiting.
NeverSkip(u) == FALSE

\* A unit whose input will never exist is not executed.
MustSkip(u) ==
    /\ unit[u] = "pending"
    /\ \E v \in Upstream(job, u) : unit[v] \in {"failed", "skipped"}

StartUnit(u) ==
    /\ CanStart(u)
    /\ unit' = [unit EXCEPT ![u] = "running"]
    /\ IF u = "load_raw_to_postgres"
       THEN /\ asPc' = "create"
            /\ asPending' = {}
            /\ asMsgs' = <<>>
            /\ asIdx' = 0
            /\ total_records' = 0
            /\ files_processed' = 0
            /\ asInserted' = 0
            /\ asErrors' = 0
            /\ UNCHANGED loadOutput
       ELSE UNCHANGED assetVars
    /\ UNCHANGED <<storeVars, loaderVars, sourceVars, scraperVars, sensorVars, job, connection, jobRuns, results>>

SkipUnit(u) ==
    /\ MustSkip(u)
    /\ unit' = [unit EXCEPT ![u] = "skipped"]
    /\ UNCHANGED <<storeVars, loaderVars, sourceVars, scraperVars, sensorVars, job, connection, jobRuns, assetVars, results>>

(***************************************************************************)
(* The units of dagster/assets.py.                                         *)
(***************************************************************************)
SampleMsgs(p) ==
    [i \in 1..MaxSample |-> Msg(SampleId(i - 1), "lobelia4cosmetics", p)]

WriteFile(lk, f, content) ==
    [g \in DOMAIN lk \cup {f} |-> IF g = f THEN content ELSE lk[g]]

\* scrape_telegram_data: TelegramScraper() (which raises without credentials),
\* then today's sample_channel.json is written.
ScrapeTelegramData(ok, d) ==
    /\ unit["scrape_telegram_data"] = "running"
    /\ IF ok
       THEN /\ jsonDir' = TRUE
            /\ lake' = WriteFile(lake, SampleFile(d), JsonFile(SampleMsgs(jobRuns)))
            /\ unit' = [unit EXCEPT !["scrape_telegram_data"] = "succeeded"]
       ELSE /\ UNCHANGED <<jsonDir, lake>>
            /\ unit' = [unit EXCEPT !["scrape_telegram_data"] = "failed"]
    /\ UNCHANGED <<table, store, loadedOnce, loaderVars, sourceVars, scraperVars, sensorVars, job, connection, jobRuns,
                   assetVars, results>>

\* PostgreSQLResource.execute_query raises when the resource was never
\* connected: cursor is None, and so is connection in the except branch.
QueryRaises == connection = "None"

\* CREATE TABLE IF NOT EXISTS of the load unit: message_id VARCHAR(255).
AssetCreateTable(t) == IF t = "none" THEN "varchar" ELSE t

\* INSERT ... ON CONFLICT (message_id, channel_name) DO NOTHING, with the
\* eight columns of the load unit (image_path is not among them).
AssetInsert(st, msg) ==
    IF Conflicts(st, msg) THEN st
    ELSE st \cup {[id |-> NextSerial(st), message_id |-> msg.message_id,
                   channel_name |-> msg.channel_name, payload |-> msg.payload,
                   image_path |-> "NULL"]}

\* load_raw_to_postgres: postgres.execute_query(create_table_sql).
LoadUnitCreateTable ==
    /\ unit["load_raw_to_postgres"] = "running"
    /\ asPc = "create"
    /\ IF QueryRaises
       THEN /\ unit' = [unit EXCEPT !["load_raw_to_postgres"] = "failed"]
            /\ asPc' = "idle"
            /\ table' = table
       ELSE /\ unit' = unit
            /\ asPc' = "list"
            /\ table' = AssetCreateTable(table)
    /\ UNCHANGED <<jsonDir, lake, store, loadedOnce, loaderVars, sourceVars, scraperVars, sensorVars, job, connection,
                   jobRuns, asPending, asMsgs, asIdx, total_records,
                   files_processed, loadOutput, asInserted, asErrors, results>>

\* json_files = fs.list_json_files(); the loop runs over json_files[:5].
LoadUnitListFiles(fs) ==
    /\ unit["load_raw_to_postgres"] = "running"
    /\ asPc = "list"
    /\ fs \subseteq DOMAIN lake
    /\ Cardinality(fs) =
          IF Cardinality(DOMAIN lake) < FileLimit
          THEN Cardinality(DOMAIN lake) ELSE FileLimit
    /\ asPending' = fs
    /\ files_processed' = Cardinality(fs)
    /\ total_records' = 0
    /\ asPc' = "files"
    /\ UNCHANGED <<storeVars, loaderVars, sourceVars, scraperVars, sensorVars, job, unit, connection, jobRuns,
                   asMsgs, asIdx, loadOutput, asInserted, asErrors, results>>

\* The next file is opened and parsed.
LoadUnitOpenFile(f) ==
    /\ unit["load_raw_to_postgres"] = "running"
    /\ asPc = "files"
    /\ f \in asPending
    /\ asPending' = asPending \ {f}
    /\ asIdx' = 0
    /\ IF ~lake[f].valid
       THEN \* json.load raises: the error is logged, the next file follows
            /\ asErrors' = asErrors + 1
            /\ UNCHANGED <<asMsgs, asPc>>
       ELSE /\ asErrors' = asErrors
            /\ asMsgs' = lake[f].messages
            /\ asPc' = IF lake[f].messages = <<>> THEN "files" ELSE "insert"
    /\ UNCHANGED <<storeVars, loaderVars, sourceVars, scraperVars, sensorVars, job, unit, connection, jobRuns,
                   total_records, files_processed, loadOutput, asInserted, results>>

\* One message of the open file: execute_query(insert_sql, ...), which
\* commits.  A raising INSERT ends the file; len(messages) is added to
\* total_records only after the last message.
LoadUnitInsert ==
    /\ unit["load_raw_to_postgres"] = "running"
    /\ asPc = "insert"
    /\ LET msg == asMsgs[asIdx + 1]
       IN  IF InsertFails(table, msg)
           THEN /\ asErrors' = asErrors + 1
                /\ asPc' = "files"
                /\ UNCHANGED <<store, asIdx, total_records, asInserted, loadedOnce>>
           ELSE /\ store' = AssetInsert(store, msg)
                /\ asInserted' = asInserted + Cardinality(store') - Cardinality(store)
                /\ asIdx' = asIdx + 1
                /\ asErrors' = asErrors
                /\ IF asIdx + 1 = Len(asMsgs)
                   THEN /\ total_records' = total_records + Len(asMsgs)
                        /\ loadedOnce' = loadedOnce \cup {asMsgs}
                        /\ asPc' = "files"
                   ELSE /\ total_records' = total_records
                        /\ loadedOnce' = loadedOnce
                        /\ asPc' = "insert"
    /\ UNCHANGED <<jsonDir, lake, table, loaderVars, sourceVars, scraperVars, sensorVars, job, unit, connection, jobRuns,
                   asPending, asMsgs, files_processed, loadOutput, results>>

\* SELECT COUNT(*) and return Output(total_records, ...).
LoadUnitFinish ==
    /\ unit["load_raw_to_postgres"] = "running"
    /\ asPc = "files"
    /\ asPending = {}
    /\ loadOutput' = total_records
    /\ asPc' = "idle"
    /\ unit' = [unit EXCEPT !["load_raw_to_postgres"] = "succeeded"]
    /\ UNCHANGED <<storeVars, loaderVars, sourceVars, scraperVars, sensorVars, job, connection, jobRuns, asPending,
                   asMsgs, asIdx, total_records, files_processed, asInserted,
                   asErrors, results>>

DbtCommands == <<"dbt debug", "dbt run", "dbt test", "dbt docs generate">>
DbtOutcomes == {"success", "failed", "timeout", "error"}

\* run_dbt_transformations: one command of the loop; its outcome is recorded
\* in results and the loop goes on.
RunDbtCommand(o) ==
    /\ unit["run_dbt_transformations"] = "running"
    /\ Len(results) < Len(DbtCommands)
    /\ results' = Append(results, o)
    /\ UNCHANGED <<storeVars, loaderVars, sourceVars, scraperVars, sensorVars, job, unit, connection, jobRuns, assetVars>>

\* After the loop: the model counts (every query error is caught) and
\* return Output(results, ...).
DbtFinish ==
    /\ unit["run_dbt_transformations"] = "running"
    /\ Len(results) = Len(DbtCommands)
    /\ unit' = [unit EXCEPT !["run_dbt_transformations"] = "succeeded"]
    /\ UNCHANGED <<storeVars, loaderVars, sourceVars, scraperVars, sensorVars, job, connection, jobRuns, assetVars, results>>

\* run_yolo_enrichment: raises when the detector cannot be built or loaded.
RunYoloEnrichment(ok) ==
    /\ unit["run_yolo_enrichment"] = "running"
    /\ unit' = [unit EXCEPT !["run_yolo_enrichment"] =
                                IF ok THEN "succeeded" ELSE "failed"]
    /\ UNCHANGED <<storeVars, loaderVars, sourceVars, scraperVars, sensorVars, job, connection, jobRuns, assetVars, results>>

\* load_yolo_to_warehouse: its first and last queries are outside any try.
LoadYoloToWarehouse(ok) ==
    /\ unit["load_yolo_to_warehouse"] = "running"
    /\ unit' = [unit EXCEPT !["load_yolo_to_warehouse"] =
                                IF ok /\ ~QueryRaises THEN "succeeded" ELSE "failed"]
    /\ UNCHANGED <<storeVars, loaderVars, sourceVars, scraperVars, sensorVars, job, connection, jobRuns, assetVars, results>>

\* generate_analytics_report: every query is inside a try; writing the report
\* file is not.
GenerateAnalyticsReport(ok) ==
    /\ unit["generate_analytics_report"] = "running"
    /\ unit' = [unit EXCEPT !["generate_analytics_report"] =
                                IF ok THEN "succeeded" ELSE "failed"]
    /\ UNCHANGED <<storeVars, loaderVars, sourceVars, scraperVars, sensorVars, job, connection, jobRuns, assetVars, results>>

\* test_fastapi_endpoints: every request is inside a try.
TestFastapiEndpoints ==
    /\ unit["test_fastapi_endpoints"] = "running"
    /\ unit' = [unit EXCEPT !["test_fastapi_endpoints"] = "succeeded"]
    /\ UNCHANGED <<storeVars, loaderVars, sourceVars, scraperVars, sensorVars, job, connection, jobRuns, assetVars, results>>

FreshUnits(j) == [u \in Units |-> IF u \in JobUnits(j) THEN "pending" ELSE "absent"]

RunDone == jobRuns > 0 /\ \A u \in JobUnits(job) : unit[u] \in Terminal

\* The job is launched: new resources, every unit pending.  The resource is
\* the object postgres_resource returns, never connected ("None"), or one on
\* which connect() was called before the units run ("open").
LaunchJob(c) ==
    /\ jobRuns = 0 \/ RunDone
    /\ ldRuns + jobRuns < MaxRuns
    /\ jobRuns' = jobRuns + 1
    /\ unit' = FreshUnits(job)
    /\ connection' = c
    /\ results' = <<>>
    /\ UNCHANGED <<storeVars, loaderVars, sourceVars, scraperVars, sensorVars, job, assetVars>>

LoadUnitNext ==
    \/ LoadUnitCreateTable
    \/ \E fs \in SUBSET DOMAIN lake : LoadUnitListFiles(fs)
    \/ \E f \in DOMAIN lake : LoadUnitOpenFile(f)
    \/ LoadUnitInsert
    \/ LoadUnitFinish

ManualJobNext ==
    \/ \E u \in Units : StartUnit(u)
    \/ \E u \in Units : SkipUnit(u)
    \/ \E ok \in BOOLEAN, d \in 1..jobRuns : ScrapeTelegramData(ok, d)
    \/ LoadUnitNext
    \/ \E c \in {"None", "open"} : LaunchJob(c)

InitJob(j) ==
    /\ job = j
    /\ unit = [u \in Units |-> "absent"]
    /\ connection = "None"
    /\ jobRuns = 0
    /\ asPc = "idle"
    /\ asPending = {}
    /\ asMsgs = <<>>
    /\ asIdx = 0
    /\ total_records = 0
    /\ files_processed = 0
    /\ loadOutput = NoResult
    /\ asInserted = 0
    /\ asErrors = 0
    /\ results = <<>>

DbtNext ==
    \/ \E o \in DbtOutcomes : RunDbtCommand(o)
    \/ DbtFinish

\* A run of telegram_pipeline.
PipelineNext ==
    \/ \E u \in Units : StartUnit(u)
    \/ \E u \in Units : SkipUnit(u)
    \/ \E ok \in BOOLEAN, d \in 1..jobRuns : ScrapeTelegramData(ok, d)
    \/ LoadUnitNext
    \/ DbtNext
    \/ \E ok \in BOOLEAN : RunYoloEnrichment(ok)
    \/ \E ok \in BOOLEAN : LoadYoloToWarehouse(ok)
    \/ \E ok \in BOOLEAN : GenerateAnalyticsReport(ok)
    \/ TestFastapiEndpoints
    \/ \E c \in {"None", "open"} : LaunchJob(c)

(***************************************************************************)
(* The scraper of src/scraper.py and the Telegram source it reads.         *)
(***************************************************************************)
Day == 24 * 3600
\* The instant the model starts at.
StartOfTime == 10 * Day

AllChannels ==
    <<"lobelia4cosmetics", "tikvahpharma", "ethiopharm", "medicine_ethiopia",
      "ethiomedical", "addispharmacy", "pharmacyaddis", "health_eth",
      "ethiodrugs", "medicalproducts", "pharmachannel">>
\* self.channels, cut to the channels the model scrapes.
ScrapeChannels == SubSeq(AllChannels, 1, MaxChannels)

Range(s) == {s[i] : i \in 1..Len(s)}

\* What a message of the source can be: older than the window, on its edge,
\* or recent; text, photo, a medium that is not a photo, or a service
\* message.
Shapes ==
    {[date |-> StartOfTime - 8 * Day, kind |-> "text"],
     [date |-> StartOfTime - DaysBack * Day, kind |-> "text"]} \cup
    {[date |-> StartOfTime - Day, kind |-> k] :
        k \in {"text", "photo", "document", "service"}}

\* iter_messages(reverse=True) yields oldest first; every channel of the
\* model carries the same messages, message i having id i.
Sources ==
    {s \in SeqsUpTo(Shapes, MaxMsgs) :
        \A i, j \in 1..Len(s) : i < j => s[i].date <= s[j].date}

\* The waits a FloodWaitError may demand (e.seconds).
Waits == {5, 30}

\* iter_messages(limit=limit) yields at most limit messages.
IterLen == IF Len(source) < LimitPerChannel THEN Len(source) ELSE LimitPerChannel

\* A date range one day too long.
StartDateOffByOne == clock - (DaysBack + 1) * Day

\* start_date = end_date - timedelta(days=days_back), end_date being now.
StartDate == clock - DaysBack * Day

\* _extract_message_data: image_path is set for a photo, downloaded or not.
ExtractMessageData(id, kind, ch, p) ==
    [message_id |-> id, channel_name |-> ch, payload |-> p,
     image_path |-> IF kind = "photo" THEN "jpg" ELSE ""]

\* A request reaches the source; it is early if the demanded wait is not over.
Request == earlyRequest' = (earlyRequest \/ clock < blockedUntil)

\* Time has moved on to t: a wait that is over is forgotten.
Elapse(t) == blockedUntil' = IF blockedUntil <= t THEN 0 ELSE blockedUntil

\* The source answers with FloodWaitError(seconds=w).
FloodWait(w) ==
    blockedUntil' = IF clock + w > blockedUntil THEN clock + w ELSE blockedUntil

\* TelegramScraper(), then scrape_all_channels up to connect(); when connect
\* raises, main() logs the failure and closes the client.
ScraperStart(ok) ==
    /\ scPc \in {"idle", "done", "crashed"}
    /\ scRuns < MaxScrapes
    /\ scRuns' = scRuns + 1
    /\ jsonDir' = TRUE
    /\ Request
    /\ channels_scraped' = 0
    /\ messages_scraped' = 0
    /\ images_downloaded' = 0
    /\ failed_channels' = <<>>
    /\ flooded' = {}
    /\ faulted' = {}
    /\ transient' = [c \in Range(ScrapeChannels) |-> 0]
    /\ chIdx' = 1
    /\ IF ok
       THEN /\ client' = "connected"
            /\ today' = clock \div Day
            /\ scPc' = "validate"
            /\ scSummary' = "none"
       ELSE /\ client' = "closed"
            /\ today' = today
            /\ scPc' = "done"
            /\ scSummary' = "failed"
    /\ UNCHANGED <<lake, table, store, loadedOnce, loaderVars, jobVars, sensorVars, clock, source,
                   blockedUntil, srcPos, messages_data, message_count, image_count,
                   images, crashFetched>>

ValidateOutcomes == {"channel", "not_channel", "not_occupied", "private", "error", "flood"}

\* validate_channel(channel) and the branch on is_valid.
ValidateChannel(o, w) ==
    /\ scPc = "validate"
    /\ chIdx <= Len(ScrapeChannels)
    /\ Request
    /\ LET c == ScrapeChannels[chIdx]
       IN  IF o = "channel"
           THEN /\ scPc' = "entity"
                /\ UNCHANGED <<chIdx, failed_channels, flooded, faulted, transient, blockedUntil>>
           ELSE /\ failed_channels' = Append(failed_channels, c)
                /\ chIdx' = chIdx + 1
                /\ scPc' = "validate"
                /\ IF o = "flood"
                   THEN /\ FloodWait(w)
                        /\ flooded' = flooded \cup {c}
                        /\ UNCHANGED <<faulted, transient>>
                   ELSE /\ faulted' = faulted \cup {c}
                        /\ transient' = IF o = "error"
                                         THEN [transient EXCEPT ![c] = @ + 1]
                                         ELSE transient
                        /\ UNCHANGED <<flooded, blockedUntil>>
    /\ UNCHANGED <<storeVars, loaderVars, jobVars, sensorVars, clock, source, scRuns, scSummary,
                   client, today, srcPos, messages_data, message_count, image_count,
                   channels_scraped, messages_scraped, images_downloaded, images,
                   crashFetched>>

EntityOutcomes == {"found", "retry_found", "retry_error", "private", "error", "flood"}

\* scrape_channel up to the loop: get_entity, and on ValueError the retry
\* with '@'.  Without an entity it returns the empty list.
GetEntity(o, w) ==
    /\ scPc = "entity"
    /\ Request
    /\ LET c == ScrapeChannels[chIdx]
       IN  IF o \in {"found", "retry_found"}
           THEN /\ scPc' = "iter"
                /\ UNCHANGED <<chIdx, failed_channels, flooded, faulted, transient, blockedUntil>>
           ELSE /\ scPc' = "validate"
                /\ chIdx' = chIdx + 1
                /\ failed_channels' = IF o = "retry_error" THEN failed_channels
                                      ELSE Append(failed_channels, c)
                /\ IF o = "flood"
                   THEN /\ FloodWait(w)
                        /\ flooded' = flooded \cup {c}
                        /\ UNCHANGED <<faulted, transient>>
                   ELSE /\ faulted' = faulted \cup {c}
                        /\ transient' = IF o = "error"
                                         THEN [transient EXCEPT ![c] = @ + 1]
                                         ELSE transient
                        /\ UNCHANGED <<flooded, blockedUntil>>
    /\ srcPos' = 0
    /\ messages_data' = <<>>
    /\ message_count' = 0
    /\ image_count' = 0
    /\ UNCHANGED <<storeVars, loaderVars, jobVars, sensorVars, clock, source, scRuns, scSummary,
                   client, today, channels_scraped, messages_scraped,
                   images_downloaded, images, crashFetched>>

\* The statements after the loop: the statistics of the channel are added.
EndOfLoop ==
    /\ messages_scraped' = messages_scraped + message_count
    /\ images_downloaded' = images_downloaded + image_count
    /\ scPc' = "return"
    /\ UNCHANGED <<messages_data, message_count, failed_channels, flooded, faulted, transient,
                   blockedUntil>>

IterOutcomes == {"yield", "error", "flood"}

\* One step of "async for message in iter_messages(...)".  The first step
\* fetches the page (a page holds more messages than a channel of the model
\* has); an exception leaves scrape_channel through "except Exception".
IterNext(o, w) ==
    /\ scPc = "iter"
    /\ IF srcPos = 0 \/ o = "flood" THEN Request ELSE UNCHANGED earlyRequest
    /\ LET c == ScrapeChannels[chIdx]
       IN  IF o = "yield"
           THEN IF srcPos = IterLen
                THEN EndOfLoop /\ srcPos' = srcPos
                ELSE LET m == source[srcPos + 1]
                     IN  /\ srcPos' = srcPos + 1
                         /\ IF m.date < StartDate                 \* break
                            THEN EndOfLoop
                            ELSE IF m.kind = "service"            \* continue
                            THEN UNCHANGED <<scPc, messages_data, message_count,
                                             messages_scraped, images_downloaded,
                                             failed_channels, flooded, faulted, transient,
                                             blockedUntil>>
                            ELSE /\ messages_data' =
                                      Append(messages_data,
                                             ExtractMessageData(srcPos + 1, m.kind, c, scRuns))
                                 /\ message_count' = message_count + 1
                                 /\ scPc' = IF m.kind = "photo" THEN "download" ELSE "iter"
                                 /\ UNCHANGED <<messages_scraped, images_downloaded,
                                                failed_channels, flooded, faulted, transient,
                                                blockedUntil>>
           ELSE /\ failed_channels' = Append(failed_channels, c)
                /\ scPc' = "return"
                /\ srcPos' = srcPos
                /\ IF o = "flood"
                   THEN /\ FloodWait(w)
                        /\ flooded' = flooded \cup {c}
                        /\ UNCHANGED <<faulted, transient>>
                   ELSE /\ faulted' = faulted \cup {c}
                        /\ transient' = IF o = "error"
                                         THEN [transient EXCEPT ![c] = @ + 1]
                                         ELSE transient
                        /\ UNCHANGED <<flooded, blockedUntil>>
                /\ UNCHANGED <<messages_data, message_count, messages_scraped,
                               images_downloaded>>
    /\ UNCHANGED <<storeVars, loaderVars, jobVars, sensorVars, clock, source, scRuns, scSummary,
                   client, today, chIdx, image_count, channels_scraped, images,
                   crashFetched>>

DownloadOutcomes == {"saved", "error", "flood"}

\* _download_image without its try/except: the exception of download_media
\* leaves scrape_channel through "except Exception".
DownloadImageUncaught(o, w) ==
    /\ scPc = "download"
    /\ Request
    /\ LET c == ScrapeChannels[chIdx]
       IN  IF o = "saved"
           THEN /\ images' = images \cup {<<c, srcPos>>}
                /\ image_count' = image_count + 1
                /\ scPc' = "iter"
                /\ UNCHANGED <<blockedUntil, failed_channels>>
           ELSE /\ UNCHANGED <<images, image_count>>
                /\ failed_channels' = Append(failed_channels, c)
                /\ scPc' = "return"
                /\ IF o = "flood" THEN FloodWait(w) ELSE UNCHANGED blockedUntil
    /\ UNCHANGED <<storeVars, loaderVars, jobVars, sensorVars, clock, source, scRuns, scSummary,
                   client, today, chIdx, srcPos, messages_data, message_count,
                   channels_scraped, messages_scraped, images_downloaded,
                   flooded, faulted, transient, crashFetched>>

\* _download_image of a photo: download_media, every exception caught.
DownloadImage(o, w) ==
    /\ scPc = "download"
    /\ Request
    /\ LET c == ScrapeChannels[chIdx]
       IN  IF o = "saved"
           THEN /\ images' = images \cup {<<c, srcPos>>}
                /\ image_count' = image_count + 1
                /\ UNCHANGED blockedUntil
           ELSE /\ UNCHANGED <<images, image_count>>
                /\ IF o = "flood" THEN FloodWait(w) ELSE UNCHANGED blockedUntil
    /\ scPc' = "iter"
    /\ UNCHANGED <<storeVars, loaderVars, jobVars, sensorVars, clock, source, scRuns, scSummary,
                   client, today, chIdx, srcPos, messages_data, message_count,
                   statsVars, flooded, faulted, transient, crashFetched>>

\* scrape_channel has returned: "if messages:" saves the file, counts the
\* channel and sleeps; the loop goes on to the next channel.
ChannelReturn ==
    /\ scPc = "return"
    /\ IF messages_data # <<>>
       THEN /\ lake' = WriteFile(lake, <<today, ScrapeChannels[chIdx]>>,
                                 JsonFile(messages_data))
            /\ channels_scraped' = channels_scraped + 1
            /\ clock' = clock + ChannelPause
            /\ Elapse(clock + ChannelPause)
       ELSE UNCHANGED <<lake, channels_scraped, clock, blockedUntil>>
    /\ chIdx' = chIdx + 1
    /\ scPc' = "validate"
    /\ UNCHANGED <<jsonDir, table, store, loadedOnce, loaderVars, jobVars, sensorVars, source,
                   earlyRequest, scRuns, scSummary, client, today,
                   srcPos, messages_data, message_count, image_count,
                   messages_scraped, images_downloaded, failed_channels, images,
                   flooded, faulted, transient, crashFetched>>

\* The loop over the channels has ended: print_statistics, and main() closes
\* the client in its finally.
ScraperFinish ==
    /\ scPc = "validate"
    /\ chIdx > Len(ScrapeChannels)
    /\ scPc' = "done"
    /\ scSummary' = "finished"
    /\ client' = "closed"
    /\ UNCHANGED <<storeVars, loaderVars, jobVars, sensorVars, sourceVars, scRuns, today, chIdx,
                   srcPos, messages_data, message_count, image_count, statsVars,
                   images, flooded, faulted, transient, crashFetched>>

\* The process is killed while it holds fetched messages it has not saved.
Crash ==
    /\ scPc \in {"iter", "download", "return"}
    /\ messages_data # <<>>
    /\ crashFetched' = {<<m.channel_name, m.message_id>> : m \in Range(messages_data)}
    /\ scPc' = "crashed"
    /\ client' = "new"
    /\ messages_data' = <<>>
    /\ UNCHANGED <<storeVars, loaderVars, jobVars, sensorVars, sourceVars, scRuns, scSummary,
                   today, chIdx, srcPos, message_count, image_count, statsVars,
                   images, flooded, faulted, transient>>

\* A day passes while the scraper is not running.
Tick ==
    /\ scPc \in {"idle", "done", "crashed"}
    /\ clock + Day < StartOfTime + (MaxDays + 1) * Day
    /\ clock' = clock + Day
    /\ Elapse(clock + Day)
    /\ UNCHANGED <<storeVars, loaderVars, jobVars, source, earlyRequest, scraperVars, sensorVars>>

\* The steps of scrape_all_channels after connect(), the source keeping to
\* the answers outside X.
ScrapeAllChannels(X) ==
    \/ \E o \in ValidateOutcomes \ X, w \in Waits : ValidateChannel(o, w)
    \/ \E o \in EntityOutcomes \ X, w \in Waits : GetEntity(o, w)
    \/ \E o \in IterOutcomes \ X, w \in Waits : IterNext(o, w)
    \/ \E o \in DownloadOutcomes \ X, w \in Waits : DownloadImage(o, w)
    \/ ChannelReturn
    \/ ScraperFinish

InitSource ==
    /\ clock = StartOfTime
    /\ source \in Sources
    /\ blockedUntil = 0
    /\ earlyRequest = FALSE

InitScraper ==
    /\ scPc = "idle"
    /\ scRuns = 0
    /\ scSummary = "none"
    /\ client = "new"
    /\ today = 0
    /\ chIdx = 0
    /\ srcPos = 0
    /\ messages_data = <<>>
    /\ message_count = 0
    /\ image_count = 0
    /\ channels_scraped = 0
    /\ messages_scraped = 0
    /\ images_downloaded = 0
    /\ failed_channels = <<>>
    /\ images = {}
    /\ flooded = {}
    /\ faulted = {}
    /\ transient = [c \in Range(ScrapeChannels) |-> 0]
    /\ crashFetched = {}

(***************************************************************************)
(* new_channel_sensor of dagster/sensor.py.                                *)
(***************************************************************************)
\* The channels config/channels.json may list as active.
ConfigChannels == {AllChannels[i] : i \in 1..MaxConfig}

NoConfig == [exists |-> FALSE, active |-> {}]
Configs == {NoConfig} \cup {[exists |-> TRUE, active |-> a] : a \in SUBSET ConfigChannels}

\* context.cursor is None until update_cursor is called.
NoCursor == <<>>

RECURSIVE Str(_)
\* str(n) of a count: its decimal digits.
Str(n) == IF n < 10 THEN <<n>> ELSE Append(Str(n \div 10), n % 10)

RECURSIVE ParseInt(_)
\* int(s) of a string of digits.
ParseInt(s) == IF s = <<>> THEN 0 ELSE 10 * ParseInt(SubSeq(s, 1, Len(s) - 1)) + s[Len(s)]

\* A test for "the count differs" in place of "the count grew".
ChannelsDiffer(n, last_checked) == n # ParseInt(last_checked)

\* "if len(current_channels) > int(last_checked)".
ChannelsHaveChanged(n, last_checked) == n > ParseInt(last_checked)

\* The configuration file is written, or removed.
WriteConfig(c) ==
    /\ c # config
    /\ config' = c
    /\ UNCHANGED <<storeVars, loaderVars, jobVars, sourceVars, scraperVars, cursor,
                   runs, lastEval, maxObserved, emergency, scheduler>>

\* One evaluation of new_channel_sensor.
NewChannelSensor ==
    /\ IF ~config.exists
       THEN /\ lastEval' = [read |-> FALSE, active |-> {}]
            /\ UNCHANGED <<cursor, runs, maxObserved>>
       ELSE LET last_checked == IF cursor = NoCursor THEN Str(0) ELSE cursor
                current_channels == config.active
                n == Cardinality(current_channels)
            IN  /\ lastEval' = [read |-> TRUE, active |-> current_channels]
                /\ maxObserved' = IF n > maxObserved THEN n ELSE maxObserved
                /\ IF ChannelsHaveChanged(n, last_checked)
                   THEN /\ cursor' = Str(n)
                        /\ runs' = [runs EXCEPT ![n] = "requested"]
                   ELSE UNCHANGED <<cursor, runs>>
    /\ UNCHANGED <<storeVars, loaderVars, jobVars, sourceVars, scraperVars, config,
                   emergency, scheduler>>

\* A run the sensor requested ends; a run that never ends is lost.
RequestedRunEnds(n, outcome) ==
    /\ runs[n] = "requested"
    /\ runs' = [runs EXCEPT ![n] = outcome]
    /\ UNCHANGED <<storeVars, loaderVars, jobVars, sourceVars, scraperVars, config,
                   cursor, lastEval, maxObserved, emergency, scheduler>>

SensorNext ==
    \/ \E c \in Configs : WriteConfig(c)
    \/ NewChannelSensor
    \/ \E n \in 1..MaxConfig, outcome \in {"success", "failure"} :
           RequestedRunEnds(n, outcome)

(***************************************************************************)
(* emergency_data_sensor of dagster/sensor.py.  emergency holds:           *)
(*   now       the time, in seconds,                                       *)
(*   ticks     how many times the time has moved on,                       *)
(*   matching  the message_date of every row of raw.telegram_messages      *)
(*             whose message_text holds an emergency keyword,              *)
(*   evalAt    the time of the latest evaluation,                          *)
(*   requests  the run_key of every run requested (run_key is the time of  *)
(*             the evaluation to the second; Dagster drops a request whose *)
(*             run_key it has seen),                                       *)
(*   reported  history: the rows some requesting evaluation has counted.   *)
(***************************************************************************)
NoEvaluation == 0 - MinimumInterval

InitEmergency ==
    emergency = [now |-> 0, ticks |-> 0, matching |-> {}, evalAt |-> NoEvaluation,
                 requests |-> {}, reported |-> {}]

\* WHERE message_text ILIKE ANY(...) AND message_date > NOW() - INTERVAL '1 hour'.
RecentMatches(e) == {d \in e.matching : d > e.now - RecentWindow}

\* Time passes: the interval of the sensor, or an hour.
EmergencyTick(d) ==
    /\ emergency.ticks < MaxEmTicks
    /\ emergency' = [emergency EXCEPT !.now = @ + d, !.ticks = @ + 1]
    /\ UNCHANGED <<storeVars, loaderVars, jobVars, sourceVars, scraperVars, config,
                   cursor, runs, lastEval, maxObserved, scheduler>>

\* A message posted now that holds an emergency keyword reaches the table.
EmergencyMessageLoaded ==
    /\ Cardinality(emergency.matching) < MaxEmergency
    /\ emergency.now \notin emergency.matching
    /\ emergency' = [emergency EXCEPT !.matching = @ \cup {emergency.now}]
    /\ UNCHANGED <<storeVars, loaderVars, jobVars, sourceVars, scraperVars, config,
                   cursor, runs, lastEval, maxObserved, scheduler>>

\* One evaluation of emergency_data_sensor, at least minimum_interval_seconds
\* after the one before; when psycopg2.connect raises, so does the evaluation.
EmergencyDataSensor(ok) ==
    /\ emergency.now >= emergency.evalAt + MinimumInterval
    /\ LET count == Cardinality(RecentMatches(emergency))
       IN  emergency' =
             IF ok /\ count > 0
             THEN [emergency EXCEPT
                     !.evalAt = emergency.now,
                     !.requests = @ \cup {emergency.now},
                     !.reported = @ \cup RecentMatches(emergency)]
             ELSE [emergency EXCEPT !.evalAt = emergency.now]
    /\ UNCHANGED <<storeVars, loaderVars, jobVars, sourceVars, scraperVars, config,
                   cursor, runs, lastEval, maxObserved, scheduler>>

EmergencyNext ==
    \/ \E d \in {MinimumInterval, RecentWindow} : EmergencyTick(d)
    \/ EmergencyMessageLoaded
    \/ \E ok \in BOOLEAN : EmergencyDataSensor(ok)

(***************************************************************************)
(* The schedules of dagster/schedules.py.  Time is the minute of the week, *)
(* minute 0 being Sunday 00:00 in Africa/Addis_Ababa, the time zone of     *)
(* every schedule; the day-of-month and month fields of every cron_schedule *)
(* are "*".                                                                *)
(***************************************************************************)
WeekMinutes == 7 * 24 * 60

MinuteOf(t) == t % 60
HourOf(t) == (t \div 60) % 24
\* 0 is Sunday, as in the day-of-week field of cron.
WeekdayOf(t) == (t \div (24 * 60)) % 7

\* The cron field "*/n" over 0..max.
Every(n, max) == {x \in 0..max : x % n = 0}

\* job and cron_schedule of each @schedule.
Schedules ==
    [daily_pipeline_schedule |->
        [job |-> "telegram_pipeline", minute |-> {0}, hour |-> {2}, weekday |-> 0..6],
     daily_analytics_schedule |->
        [job |-> "daily_analytics_job", minute |-> {0}, hour |-> {3}, weekday |-> 0..6],
     frequent_scraping_schedule |->
        [job |-> "telegram_pipeline", minute |-> {0}, hour |-> Every(6, 23),
         weekday |-> 0..6],
     weekly_full_pipeline_schedule |->
        [job |-> "telegram_pipeline", minute |-> {0}, hour |-> {0}, weekday |-> {0}]]

CronMatches(c, t) ==
    /\ MinuteOf(t) \in c.minute
    /\ HourOf(t) \in c.hour
    /\ WeekdayOf(t) \in c.weekday

\* The schedules whose tick falls on minute t: each returns a RunRequest.
Due(t) == {n \in DOMAIN Schedules : CronMatches(Schedules[n], t)}

\* The scheduler as it is started at minute t, no schedule evaluated yet.
SchedulerAt(t) == [minute |-> t, ticks |-> 0, fired |-> {}]

\* The scheduler is started at any half hour of the week.
InitScheduler ==
    scheduler \in {SchedulerAt(30 * k) : k \in 0..(WeekMinutes \div 30 - 1)}

\* Half an hour passes and the schedules that are due are evaluated.
ScheduleTick ==
    /\ scheduler.ticks < MaxScheduleTicks
    /\ LET t == (scheduler.minute + 30) % WeekMinutes
       IN  scheduler' = [minute |-> t, ticks |-> scheduler.ticks + 1, fired |-> Due(t)]
    /\ UNCHANGED <<storeVars, loaderVars, jobVars, sourceVars, scraperVars, config,
                   cursor, runs, lastEval, maxObserved, emergency>>

InitSensor ==
    /\ config \in Configs
    /\ cursor = NoCursor
    /\ runs = [n \in 1..MaxConfig |-> "none"]
    /\ lastEval = [read |-> FALSE, active |-> {}]
    /\ maxObserved = 0
    /\ InitEmergency
    /\ scheduler = SchedulerAt(30)

InitStore ==
    /\ jsonDir \in BOOLEAN
    /\ lake \in Lakes
    /\ ~jsonDir => lake = EmptyLake
    /\ table = "none"
    /\ store = {}
    /\ loadedOnce = {}

InitLoader ==
    /\ ldPc = "idle"
    /\ ldConn = "None"
    /\ ldPending = {}
    /\ files_loaded = 0
    /\ records_loaded = 0
    /\ ldResult = NoResult
    /\ ldSummary = "none"
    /\ ldRuns = 0
    /\ ldInserted = 0
    /\ ldTotal = 0
    /\ ldErrors = 0

\* The load stage runs on a lake of any content; the scraper stays idle.
NoMessages == <<>>
Init ==
    /\ InitStore /\ InitLoader /\ InitJob("manual_scraping_job")
    /\ InitSource /\ source = NoMessages /\ InitScraper
    /\ InitSensor /\ config = NoConfig

Next == LoaderNext \/ ManualJobNext

Spec == Init /\ [][Next]_vars

\* The lakes the pipeline is started on: none, an empty one, one scraped file.
PipelineLakes ==
    {EmptyLake, [f \in FileNames |-> JsonFile(<<Msg(1, "lobelia4cosmetics", 1)>>)]}

InitPipeline ==
    /\ InitStore
    /\ lake \in PipelineLakes
    /\ InitLoader
    /\ InitJob("telegram_pipeline")
    /\ InitSource /\ source = NoMessages /\ InitScraper
    /\ InitSensor /\ config = NoConfig

SpecPipeline == InitPipeline /\ [][PipelineNext]_vars

\* The steps of a run that is under way: everything but the launch.
PipelineRunSteps ==
    \/ \E u \in Units : StartUnit(u)
    \/ \E u \in Units : SkipUnit(u)
    \/ \E ok \in BOOLEAN, d \in 1..jobRuns : ScrapeTelegramData(ok, d)
    \/ LoadUnitNext
    \/ DbtNext
    \/ \E ok \in BOOLEAN : RunYoloEnrichment(ok)
    \/ \E ok \in BOOLEAN : LoadYoloToWarehouse(ok)
    \/ \E ok \in BOOLEAN : GenerateAnalyticsReport(ok)
    \/ TestFastapiEndpoints

\* The executor does not stop while a unit can start, be skipped or go on:
\* execute_in_process runs the plan to its end, and the code of a unit is
\* sequential (each dbt command has timeout=300).
SpecPipelineLive == SpecPipeline /\ WF_vars(PipelineRunSteps)

\* A lake in which the scrapes of earlier days have accumulated: one file
\* more than the load unit takes, each with one message of its own.
BacklogLake ==
    [f \in {<<0 - d, "lobelia4cosmetics">> : d \in 0..FileLimit} |->
        JsonFile(<<Msg(1 - f[1], "lobelia4cosmetics", 1)>>)]

InitBacklog ==
    /\ jsonDir = TRUE
    /\ lake = BacklogLake
    /\ table = "none"
    /\ store = {}
    /\ loadedOnce = {}
    /\ InitLoader
    /\ InitJob("manual_scraping_job")
    /\ InitSource /\ source = NoMessages /\ InitScraper
    /\ InitSensor /\ config = NoConfig

\* Runs of manual_scraping_job on the accumulated lake, rglob listing the
\* files by the date of their directory, oldest first.
BacklogNext ==
    \/ \E u \in Units : StartUnit(u)
    \/ \E u \in Units : SkipUnit(u)
    \/ \E ok \in BOOLEAN, d \in 1..jobRuns : ScrapeTelegramData(ok, d)
    \/ LoadUnitCreateTable
    \/ \E fs \in SUBSET DOMAIN lake :
           /\ \A f \in fs : \A g \in DOMAIN lake \ fs : f[1] < g[1]
           /\ LoadUnitListFiles(fs)
    \/ \E f \in DOMAIN lake :
           /\ \A g \in asPending : f[1] <= g[1]
           /\ LoadUnitOpenFile(f)
    \/ LoadUnitInsert
    \/ LoadUnitFinish
    \/ \E c \in {"None", "open"} : LaunchJob(c)

SpecBacklog == InitBacklog /\ [][BacklogNext]_vars

\* The scraper starts on an empty lake.
InitScrape ==
    /\ InitStore
    /\ jsonDir
    /\ lake = EmptyLake
    /\ InitLoader
    /\ InitJob("manual_scraping_job")
    /\ InitSource
    /\ InitScraper
    /\ InitSensor /\ config = NoConfig

\* One execution of the scraper, the source answering as it pleases.
ScrapeNext ==
    \/ \E ok \in BOOLEAN : scPc = "idle" /\ ScraperStart(ok)
    \/ ScrapeAllChannels({})

SpecScrape == InitScrape /\ [][ScrapeNext]_vars

\* An execution of the scraper that is killed, time passing, the execution
\* that follows, and the loader run on what the scraper has left.  The source
\* demands no wait here.
RecoverNext ==
    \/ \E ok \in BOOLEAN : scPc \in {"idle", "crashed"} /\ ScraperStart(ok)
    \/ ScrapeAllChannels({"flood"})
    \/ Crash
    \/ scPc = "crashed" /\ Tick
    \/ scPc = "done" /\ LoaderNext

SpecRecover == InitScrape /\ [][RecoverNext]_vars

\* The sensor, the configuration changing under it, and the runs it requests.
InitSensing ==
    /\ InitStore /\ lake = EmptyLake
    /\ InitLoader
    /\ InitJob("manual_scraping_job")
    /\ InitSource /\ source = NoMessages /\ InitScraper
    /\ InitSensor

SpecSensor == InitSensing /\ [][SensorNext]_vars

\* emergency_data_sensor, time passing and messages being loaded under it.
InitEmergencySensing ==
    /\ InitStore /\ lake = EmptyLake
    /\ InitLoader
    /\ InitJob("manual_scraping_job")
    /\ InitSource /\ source = NoMessages /\ InitScraper
    /\ InitSensor /\ config = NoConfig

SpecEmergency == InitEmergencySensing /\ [][EmergencyNext]_vars

\* The schedules alone, from any half hour of the week.
InitScheduling ==
    /\ InitStore /\ jsonDir /\ lake = EmptyLake
    /\ InitLoader
    /\ InitJob("telegram_pipeline")
    /\ InitSource /\ source = NoMessages /\ InitScraper
    /\ config = NoConfig
    /\ cursor = NoCursor
    /\ runs = [n \in 1..MaxConfig |-> "none"]
    /\ lastEval = [read |-> FALSE, active |-> {}]
    /\ maxObserved = 0
    /\ InitEmergency
    /\ InitScheduler

SpecSchedule == InitScheduling /\ [][ScheduleTick]_vars

\* What a scrape saves for a channel: messages in the order of their ids,
\* oldest first, as scrape_channel appended them.
ScrapedFiles ==
    {JsonFile([i \in 1..Len(q) |-> Msg(q[i], "lobelia4cosmetics", 1)]) :
        q \in {r \in SeqsUpTo(1..MaxIds, MaxIds) :
                 /\ r # <<>>
                 /\ \A i, j \in 1..Len(r) : i < j => r[i] < r[j]}}

\* The scrapes of two days for the one channel: the later one may hold newer
\* messages and may lack messages the channel has lost since.
TwoDayLakes == [{<<d, "lobelia4cosmetics">> : d \in 1..2} -> ScrapedFiles]

InitTwoDays ==
    /\ jsonDir = TRUE
    /\ lake \in TwoDayLakes
    /\ table = "none"
    /\ store = {}
    /\ loadedOnce = {}
    /\ InitLoader
    /\ InitJob("manual_scraping_job")
    /\ InitSource /\ source = NoMessages /\ InitScraper
    /\ InitSensor /\ config = NoConfig

\* The loader script and manual_scraping_job on the files of two days, rglob
\* yielding the files in the order the file system keeps them.
SpecTwoDays == InitTwoDays /\ [][Next]_vars

(***************************************************************************)
(* Properties of the load stage.                                           *)
(***************************************************************************)
\* The step is one iteration of the loader's loop, over file f.
LoaderLoads(f) == ldPc = "files" /\ f \in ldPending /\ f \notin ldPending'

\* The step is one INSERT of the load unit.
UnitInserts == asPc = "insert" /\ (asIdx' = asIdx + 1 \/ asErrors' = asErrors + 1)

SameKey(r, m) == r.message_id = m.message_id /\ r.channel_name = m.channel_name

\* C1: idempotence of load.  Loading a batch (the messages of one JSON file)
\* that some earlier load, by the loader script or by the load unit, has
\* already committed leaves the raw store exactly as it was: no row is
\* added, removed or changed, so the row count is unchanged.
LoadIdempotent ==
    [][ /\ \A f \in DOMAIN lake :
              (LoaderLoads(f) /\ lake[f].valid /\ lake[f].messages \in loadedOnce)
                  => store' = store
        /\ (UnitInserts /\ asMsgs \in loadedOnce) => store' = store ]_vars

\* A second execution of the loader has loaded a file a first one had loaded:
\* the file is counted, nothing was inserted, the rows are those of the first.
SecondLoadDone ==
    /\ ldRuns = 2 /\ jobRuns = 0 /\ ldPc = "done"
    /\ files_loaded = 1 /\ ldInserted = 0 /\ store # {}

\* C5: first-write-wins.  No step changes or removes a stored row: a row of
\* the raw store is still there, with the same value in every column, after
\* any load, whatever payload is delivered later under its key.
FirstWriteWins == [][\A r \in store : r \in store']_vars

\* A message was delivered under a stored key with another payload, by the
\* loader and by the load unit, and the stored row kept its first payload.
RedeliveryIgnored ==
    /\ ldPc = "done" /\ files_loaded > 0 /\ ldInserted < records_loaded
    /\ \E f \in DOMAIN lake : \E i \in 1..Len(lake[f].messages) :
           \E r \in store : /\ SameKey(r, lake[f].messages[i])
                            /\ r.payload # lake[f].messages[i].payload

KeyUnique ==
    \A r1 \in store : \A r2 \in store : SameKey(r1, r2) => r1 = r2

\* A load of a well-formed message whose key is already stored raises
\* nothing: the loader commits and counts the file, the load unit goes on to
\* the next message.
ConflictIsSilent ==
    /\ \A f \in DOMAIN lake :
          ( /\ LoaderLoads(f)
            /\ lake[f].valid
            /\ lake[f].messages # <<>>
            /\ \A i \in 1..Len(lake[f].messages) :
                   ~InsertFails(table, lake[f].messages[i])
            /\ \E i \in 1..Len(lake[f].messages) :
                   Conflicts(store, lake[f].messages[i]) )
          => files_loaded' = files_loaded + 1 /\ ldErrors' = ldErrors
    /\ ( /\ UnitInserts
         /\ ~InsertFails(table, asMsgs[asIdx + 1])
         /\ Conflicts(store, asMsgs[asIdx + 1]) )
          => asErrors' = asErrors /\ asIdx' = asIdx + 1 /\ store' = store

\* C6: uniqueness.  In every state reached by any interleaving of the loader
\* script and the load unit, the raw store holds at most one row per
\* (channel_name, message_id); and loading a message whose key is stored
\* is a no-op that raises no error and aborts no batch.
RawKeyUnique == []KeyUnique /\ [][ConflictIsSilent]_vars

\* Both loaders have loaded into the same table and met stored keys.
BothLoadersMetConflicts ==
    /\ ldPc = "done" /\ files_loaded > 0
    /\ unit["load_raw_to_postgres"] = "succeeded" /\ total_records > 0
    /\ ldInserted + asInserted < records_loaded + total_records
    /\ store # {}

\* C7: the load returns the number of rows it inserted.  load_json_files
\* returns, and the load unit outputs, the number of rows the call added to
\* the raw store.
ReturnsInsertedCount ==
    /\ (ldPc = "done" /\ ldConn = "closed" /\ ldResult # NoResult)
          => ldResult = ldInserted
    /\ unit["load_raw_to_postgres"] = "succeeded" => loadOutput = asInserted

\* C10: a load that loaded nothing does not end as a success.  An execution
\* of the loader in which the JSON directory is missing or every file raised
\* does not log success, and a load unit in which every file raised does not
\* succeed.
FailedLoadNotSuccess ==
    /\ ( /\ ldPc = "done" /\ ldConn = "closed"
         /\ ldResult = NoResult \/ (ldTotal > 0 /\ ldErrors = ldTotal) )
          => ldSummary # "success"
    /\ (files_processed > 0 /\ asErrors = files_processed)
          => unit["load_raw_to_postgres"] # "succeeded"
(***************************************************************************)
(* Properties of the job run.                                              *)
(***************************************************************************)
HasRun(u) == unit[u] \in {"running", "succeeded", "failed"}

\* C3: scheduling correctness.  In a run of telegram_pipeline a unit is
\* running, or has run, only if every unit it takes an input from has
\* succeeded; once any other unit has failed, test_fastapi_endpoints is
\* never run; and when the run is over every unit with a failed or skipped
\* input is skipped.
SchedulingCorrect ==
    /\ \A u \in Units : HasRun(u) =>
           \A v \in PipelineUpstream(u) : unit[v] = "succeeded"
    /\ (\E v \in Units \ {"test_fastapi_endpoints"} : unit[v] = "failed")
           => ~HasRun("test_fastapi_endpoints")
    /\ RunDone =>
           \A u \in Units :
               (\E v \in PipelineUpstream(u) : unit[v] \in {"failed", "skipped"})
                   => unit[u] = "skipped"

\* The fetch unit failed, the independent enrichment unit ran, and the skip
\* reached the last unit of the graph.
SkipReachedLastUnit ==
    /\ RunDone
    /\ unit["scrape_telegram_data"] = "failed"
    /\ unit["run_yolo_enrichment"] = "succeeded"
    /\ unit["load_yolo_to_warehouse"] = "skipped"
    /\ unit["test_fastapi_endpoints"] = "skipped"

\* C9: the transformation unit follows the exit status of dbt.  Once a dbt
\* command has exited non-zero, timed out or failed to start, the unit
\* run_dbt_transformations does not succeed and none of its dependents runs.
DbtStatusDecides ==
    (\E i \in 1..Len(results) : results[i] # "success")
        => /\ unit["run_dbt_transformations"] # "succeeded"
           /\ \A u \in {"load_yolo_to_warehouse", "generate_analytics_report",
                        "test_fastapi_endpoints"} : ~HasRun(u)

(***************************************************************************)
(* Properties of the scraper.                                              *)
(***************************************************************************)
\* C2: once the source has answered a request with FloodWaitError carrying a
\* wait of W seconds, in validate_channel or in the iteration of
\* scrape_channel, the scraper sends the source no request before the W
\* seconds have passed.
WaitsOutFloodWait == ~earlyRequest

\* C8: a channel whose fetch was ended by a rate-limit signal, and by nothing
\* else, is not in failed_channels.
RateLimitIsNoFailure ==
    \A c \in flooded \ faulted : c \notin Range(failed_channels)

\* The execution after the crash went through every channel and met no
\* error, and the loader has then loaded the lake without an error.
RerunAndReloadDone ==
    /\ crashFetched # {}
    /\ scPc = "done"
    /\ scSummary = "finished"
    /\ flooded = {}
    /\ faulted = {}
    /\ ldPc = "done"
    /\ ldSummary = "success"
    /\ ldErrors = 0

\* C4: when the scraper was killed holding fetched messages it had not saved,
\* and has been run again and the loader after it, the raw store has no two
\* rows with one (channel_name, message_id) and holds every message that had
\* been fetched before the kill.
NoLostWorkOnCrash ==
    RerunAndReloadDone =>
        /\ KeyUnique
        /\ \A k \in crashFetched :
              \E r \in store : <<r.channel_name, r.message_id>> = k

(***************************************************************************)
(* Properties of the pipeline's load unit.                                 *)
(***************************************************************************)
\* C11: when the load unit of a run has succeeded, every message of every
\* JSON file of the lake is in the raw store under its (channel_name,
\* message_id), however many files the lake holds.
NoLossBetweenFetchAndLoad ==
    unit["load_raw_to_postgres"] = "succeeded" =>
        \A f \in DOMAIN lake : \A i \in 1..Len(lake[f].messages) :
            \E r \in store : SameKey(r, lake[f].messages[i])

\* C12: in a run of telegram_pipeline the enrichment unit is running, or has
\* run, only when the fetch, load and transform units have succeeded.
EnrichAfterTransform ==
    HasRun("run_yolo_enrichment") =>
        \A v \in {"scrape_telegram_data", "load_raw_to_postgres",
                  "run_dbt_transformations"} : unit[v] = "succeeded"

(***************************************************************************)
(* Properties of new_channel_sensor.                                       *)
(***************************************************************************)
\* The count the cursor stands for; 0 while it is unset.
CursorValue == IF cursor = NoCursor THEN 0 ELSE ParseInt(cursor)

\* C13: the cursor of new_channel_sensor stands at a channel count N only
\* when the run requested for the N channels has ended in success.
CommitThenCheckpoint ==
    cursor # NoCursor => runs[CursorValue] = "success"

\* C14: over any sequence of evaluations and configurations the cursor never
\* decreases, and it is the largest active-channel count an evaluation has
\* read so far, unset while that count is 0.
CursorMonotone ==
    /\ [](/\ CursorValue = maxObserved
          /\ cursor = (IF maxObserved = 0 THEN NoCursor ELSE Str(maxObserved)))
    /\ [][IF cursor' = NoCursor THEN cursor = NoCursor
          ELSE ParseInt(cursor') >= CursorValue]_vars

\* An evaluation has read fewer channels than an earlier one, and the cursor
\* has stayed at the larger count.
CursorKeptAboveCount ==
    /\ lastEval.read
    /\ Cardinality(lastEval.active) < maxObserved
    /\ maxObserved > 1
    /\ cursor = Str(maxObserved)

\* C19: when an evaluation reads an active-channel set holding a channel that
\* the set read by the evaluation before it did not hold, the evaluation
\* returns a run request.
NewChannelRequestsRun ==
    [][(/\ lastEval.read
        /\ lastEval'.read
        /\ lastEval'.active \ lastEval.active # {})
          => /\ cursor' # cursor
             /\ runs'[Cardinality(lastEval'.active)] = "requested"]_vars

(***************************************************************************)
(* Properties of the scraper's handling of failures.                       *)
(***************************************************************************)
\* The channels validate_channel has been called for in this execution.
Attempted ==
    {ScrapeChannels[i] : i \in 1..(chIdx - 1)} \cup
    (IF scPc \in {"entity", "iter", "download", "return"}
     THEN {ScrapeChannels[chIdx]} ELSE {})

\* C15: a channel whose validation or scraping was ended by an error is in
\* failed_channels, and an execution that has gone through its loop has
\* called validate_channel for every configured channel, those after a failed
\* channel included.
FailureIsolated ==
    /\ \A c \in faulted \cup flooded : c \in Range(failed_channels)
    /\ (scSummary = "finished" /\ scPc = "done") =>
           Attempted = Range(ScrapeChannels)

\* The records of a are the first records of b.
IsPrefix(a, b) == Len(a) <= Len(b) /\ SubSeq(b, 1, Len(a)) = a

\* C16: while scrape_channel downloads the image of a message the record of
\* that message is already the last of messages_data; whatever the download
\* does, and when the medium is not a photo and nothing is downloaded, the
\* record stays in messages_data up to the return of scrape_channel, the
\* loop goes on to the next message and failed_channels is left alone.
AttachmentFailureKeepsRecord ==
    /\ [](scPc = "download" =>
            /\ messages_data # <<>>
            /\ messages_data[Len(messages_data)].message_id = srcPos
            /\ source[srcPos].kind = "photo")
    /\ [][/\ scPc = "download" =>
               /\ scPc' = "iter"
               /\ messages_data' = messages_data
               /\ failed_channels' = failed_channels
          /\ (/\ scPc = "iter"
              /\ srcPos' = srcPos + 1
              /\ source[srcPos'].kind = "document"
              /\ source[srcPos'].date >= clock - DaysBack * Day) =>
               /\ scPc' = "iter"
               /\ Len(messages_data') = Len(messages_data) + 1
               /\ messages_data'[Len(messages_data')].message_id = srcPos'
               /\ failed_channels' = failed_channels
          /\ (scPc \in {"iter", "download"} /\ scPc' \in {"iter", "download", "return"}) =>
               IsPrefix(messages_data, messages_data')]_vars

\* scrape_channel returns two records of a channel that has not failed, the
\* first of them of a photo whose download did not save an image.
DownloadFailedRecordKept ==
    /\ scPc = "return"
    /\ ScrapeChannels[chIdx] \notin Range(failed_channels)
    /\ Len(messages_data) = 2
    /\ messages_data[1].image_path = "jpg"
    /\ <<ScrapeChannels[chIdx], messages_data[1].message_id>> \notin images

(***************************************************************************)
(* Properties of a batch with a malformed record.                          *)
(***************************************************************************)
\* Every record of msgs that the table accepts has its row in st.
WellFormedStored(st, msgs) ==
    \A i \in 1..Len(msgs) :
        ~InsertFails(table, msgs[i]) => \E r \in st : SameKey(r, msgs[i])

\* C17: when the standalone loader or the load unit is through with a
\* readable JSON file, every record of the file whose INSERT does not fail
\* has its row in the table, whether it stands before or after a record
\* whose INSERT failed.
PartialBatchTolerated ==
    [][/\ \A f \in DOMAIN lake :
             (LoaderLoads(f) /\ lake[f].valid) =>
                 WellFormedStored(store', lake[f].messages)
       /\ (asPc = "insert" /\ asPc' = "files") =>
             WellFormedStored(store', asMsgs)]_vars

(***************************************************************************)
(* Properties of the scraper's fetch.                                      *)
(***************************************************************************)
\* C18: a channel whose fetch has met one transient error (an exception that
\* is neither a rate limit nor a private, missing or wrong-typed channel) is
\* not in failed_channels: it takes more than one such error to fail it.
SingleTransientTolerated ==
    \A c \in Range(ScrapeChannels) :
        transient[c] = 1 => c \notin Range(failed_channels)

\* The since bound of a fetch: now - days_back.
SinceBound == clock - DaysBack * Day

\* The date the source gives to the message of a record.
DateOf(rec) == source[rec.message_id].date

WindowComplete ==
    (scPc = "return" /\ ScrapeChannels[chIdx] \notin Range(failed_channels)) =>
        \A k \in 1..IterLen :
            (/\ source[k].kind # "service"
             /\ source[k].date >= SinceBound
             /\ source[k].date <= clock) =>
                \E i \in 1..Len(messages_data) : messages_data[i].message_id = k

\* The channels this execution has saved a file for, which are the channels
\* it has counted in channels_scraped.
SavedNow ==
    {c \in Range(ScrapeChannels) :
        /\ <<today, c>> \in DOMAIN lake
        /\ \E i \in 1..Len(lake[<<today, c>>].messages) :
               lake[<<today, c>>].messages[i].payload = scRuns}

\* C25: when scrape_all_channels has completed, channels_scraped counts the
\* channels it saved, none of them is in failed_channels, and no channel is
\* in failed_channels twice.
AccountingExclusive ==
    scSummary = "finished" =>
        /\ channels_scraped = Cardinality(SavedNow)
        /\ \A c \in SavedNow : c \notin Range(failed_channels)
        /\ \A i, j \in 1..Len(failed_channels) :
               i # j => failed_channels[i] # failed_channels[j]

\* C27: every record that scrape_channel returns with an image_path is of a
\* message whose image the scrape has downloaded; a record whose download
\* failed carries no image_path.
ImagePathIsDownloaded ==
    scPc = "return" =>
        \A i \in 1..Len(messages_data) :
            messages_data[i].image_path # "" =>
                <<ScrapeChannels[chIdx], messages_data[i].message_id>> \in images

\* The message ids of a file of the lake.
IdsOf(file) == {file.messages[i].message_id : i \in 1..Len(file.messages)}

\* C26: no step of any execution of the scraper removes a file of the lake
\* or a message id from a file: what an earlier execution saved for a date
\* and a channel is still there after every later one.
LakeNeverShrinks ==
    [][\A f \in DOMAIN lake :
           /\ f \in DOMAIN lake'
           /\ IdsOf(lake[f]) \subseteq IdsOf(lake'[f])]_vars

(***************************************************************************)
(* Properties of the order of a load.                                      *)
(***************************************************************************)
\* Telegram numbers the messages of a channel in the order of their dates:
\* of two scraped messages of a channel the one with the larger id is the
\* later one.
Earlier(r1, r2) == r1.message_id < r2.message_id

\* C21: the rows of a channel are inserted in the order of the dates of their
\* messages, over all the files of the channel: a row that entered the table
\* before another (its SERIAL id is smaller) is of the earlier message.
LoadedInDateOrder ==
    \A r1, r2 \in store :
        (/\ r1.channel_name = r2.channel_name
         /\ r1.message_id > 0
         /\ r2.message_id > 0
         /\ r1.id < r2.id) => Earlier(r1, r2)

(***************************************************************************)
(* Termination of a run.                                                   *)
(***************************************************************************)
\* C22: every run of telegram_pipeline reaches a state in which each of its
\* seven units has succeeded, failed or been skipped, whichever units fail.
RunTerminates ==
    \A n \in 1..MaxRuns : (jobRuns = n) ~> (jobRuns = n /\ RunDone)

\* A run has ended with two units failed and the five below them skipped.
RunEndedAfterFailures ==
    /\ RunDone
    /\ job = "telegram_pipeline"
    /\ unit["scrape_telegram_data"] = "failed"
    /\ unit["run_yolo_enrichment"] = "failed"
    /\ \A u \in Units \ {"scrape_telegram_data", "run_yolo_enrichment"} :
           unit[u] = "skipped"

QueryOnConnectedResource ==
    (unit["load_raw_to_postgres"] = "running" /\ asPc \in {"create", "insert"}) =>
        connection = "open"

(***************************************************************************)
(* Properties of emergency_data_sensor.                                    *)
(***************************************************************************)
\* C29: an evaluation of emergency_data_sensor that finds no matching row
\* beyond those a requesting evaluation has already counted requests no
\* run.
OneRunPerEmergency ==
    [][(/\ emergency'.evalAt # emergency.evalAt
        /\ emergency.requests # {}
        /\ RecentMatches(emergency) \subseteq emergency.reported)
          => emergency'.requests = emergency.requests]_vars

(***************************************************************************)
(* Properties of the schedules.                                            *)
(***************************************************************************)
\* C30: at every tick at most one of the schedules of telegram_pipeline
\* (daily_pipeline_schedule, frequent_scraping_schedule and
\* weekly_full_pipeline_schedule) is due, so no two runs of the pipeline are
\* requested for the same instant.
OnePipelineRunPerTick ==
    Cardinality({n \in scheduler.fired :
                    Schedules[n].job = "telegram_pipeline"}) <= 1

====
